---- MODULE Spec2Model ----
(***************************************************************************)
(* Model of src/src/user/delete.js: User.delete, User.deleteContent and    *)
(* User.deleteAccount running as concurrent async calls of one Node.js     *)
(* process over a shared key-value store.                                   *)
(*                                                                         *)
(* Granularity.  Every awaited store or collaborator call is one action:   *)
(* the call takes effect on the store, and the synchronous code up to the  *)
(* next awaited call (which touches only the call's own locals) is folded  *)
(* into it.  Synchronous code that reads or writes the in-process guard    *)
(* deletesInProgress, or that returns to the caller, runs when the reply   *)
(* is handled and is an action of its own.                                  *)
(*                                                                         *)
(* Strings (uids, ids, names) are tuples of one-character strings, so that *)
(* parseInt, toLowerCase and key templates are computed, not assumed.      *)
(***************************************************************************)
EXTENDS Integers, Sequences, FiniteSets, TLC

\* ------------------------------------------------------------- bounds
MaxFailures == 1    \* store / collaborator steps that reject in one behaviour
BatchSize == 2      \* members per fetch of batch.processSortedSet (500 in the code)
MaxQueue == 3       \* entries of the global post:queue when the queue purge starts
MaxPosts == 3       \* posts authored by the user whose content is deleted
MaxTopics == 3      \* topics authored by the user whose content is deleted

\* ------------------------------------------------------------- strings
Digits == {"0", "1", "2", "3", "4", "5", "6", "7", "8", "9"}

DigitVal(c) ==
  CASE c = "0" -> 0 [] c = "1" -> 1 [] c = "2" -> 2 [] c = "3" -> 3 [] c = "4" -> 4
    [] c = "5" -> 5 [] c = "6" -> 6 [] c = "7" -> 7 [] c = "8" -> 8 [] c = "9" -> 9

RECURSIVE LeadDigits(_)
LeadDigits(s) ==
  IF s = <<>> \/ Head(s) \notin Digits THEN <<>> ELSE <<Head(s)>> \o LeadDigits(Tail(s))

RECURSIVE DecVal(_)
DecVal(d) ==
  IF d = <<>> THEN 0 ELSE DecVal(SubSeq(d, 1, Len(d) - 1)) * 10 + DigitVal(d[Len(d)])

\* parseInt(s, 10): optional sign, then the longest run of digits; NaN without one.
ParseInt(s) ==
  LET signed == s # <<>> /\ Head(s) \in {"-", "+"}
      body == IF signed THEN Tail(s) ELSE s
      d == LeadDigits(body)
  IN  IF d = <<>> THEN [nan |-> TRUE, val |-> 0]
      ELSE [nan |-> FALSE, val |-> IF Head(s) = "-" THEN 0 - DecVal(d) ELSE DecVal(d)]

\* n <= 0 on a parseInt result: every comparison with NaN is false.
LeqZero(n) == ~n.nan /\ n.val <= 0

\* a === b on two parseInt results: NaN equals nothing, itself included.
StrictEq(a, b) == ~a.nan /\ ~b.nan /\ a.val = b.val

LowerChar(c) == CASE c = "A" -> "a" [] c = "B" -> "b" [] OTHER -> c

\* String.prototype.toLowerCase
ToLowerCase(s) == [i \in 1..Len(s) |-> LowerChar(s[i])]

\* ------------------------------------------------------------- identifiers
U1 == <<"1">>
U2 == <<"2">>
UZero == <<"0">>
UNeg == <<"-", "5">>
UNaN == <<"a", "b">>
U3 == <<"3">>

\* uids a call may be handed
UidInputs == {U1, U2, U3, UZero, UNeg, UNaN}

Procs == {"p", "q"}

Undefined == <<"undefined">>
\* deletesInProgress[uid] of a uid that has no entry
NoEntry == "undefined"
Null == [null |-> TRUE]

\* key templates: `${prefix}${id}${suffix}`
Key(prefix, id, suffix) == <<prefix, id, suffix>>
G(name) == <<name, <<>>, "">>

E(member, score) == [m |-> member, s |-> score]

\* ------------------------------------------------------------- state
VARIABLES
  deletesInProgress,  \* the guard: uid -> tag, an entry only while one is set
  zsets,              \* sorted sets: key -> entries [m, s] in rank order
  sets,               \* plain sets: key -> members
  objects,            \* hashes: key -> fields
  proc,               \* per call slot: position, arguments, locals, result
  fails,              \* steps that rejected so far
  decrOf,             \* history: uid -> decrements of global.userCount done for it
  hist                \* history: uid -> the calls issued for it, in order

vars == <<deletesInProgress, zsets, sets, objects, proc, fails, decrOf, hist>>

\* ------------------------------------------------------------- the store
\* An empty sorted set or set is no key at all.
NormZ(z) == [k \in {x \in DOMAIN z : z[x] # <<>>} |-> z[k]]
NormS(s) == [k \in {x \in DOMAIN s : s[x] # {}} |-> s[k]]

Members(z, k) == IF k \in DOMAIN z THEN [i \in 1..Len(z[k]) |-> z[k][i].m] ELSE <<>>

Range(f) == {f[i] : i \in DOMAIN f}

\* db.getSortedSetRange(key, 0, -1), db.getSortedSetMembers(key)
GetSortedSetRange(z, k) == Members(z, k)

\* db.getSortedSetRange(key, start, stop)
GetSortedSetSlice(z, k, start, stop) ==
  LET all == Members(z, k)
  IN  SubSeq(all, start + 1, IF stop + 1 < Len(all) THEN stop + 1 ELSE Len(all))

\* db.sortedSetCard(key)
SortedSetCard(z, k) == Len(Members(z, k))

\* db.sortedSetsRemove(keys, value)
SortedSetsRemove(z, keys, value) ==
  NormZ([k \in DOMAIN z |->
           IF k \in keys THEN SelectSeq(z[k], LAMBDA e : e.m # value) ELSE z[k]])

\* db.sortedSetRemoveBulk([[key, member], ...])
SortedSetRemoveBulk(z, pairs) ==
  NormZ([k \in DOMAIN z |-> SelectSeq(z[k], LAMBDA e : <<k, e.m>> \notin pairs)])

\* db.setsRemove(keys, value), db.setRemove(key, value)
SetsRemove(s, keys, value) ==
  NormS([k \in DOMAIN s |-> IF k \in keys THEN s[k] \ {value} ELSE s[k]])

\* db.deleteAll(keys), db.delete(key): whatever the key holds
DeleteKeys(f, keys) == [k \in DOMAIN f \ keys |-> f[k]]

\* db.getObject(key)
GetObject(o, k) == IF k \in DOMAIN o THEN o[k] ELSE Null

HasField(rec, f) == rec # Null /\ f \in DOMAIN rec
Field(rec, f) == IF HasField(rec, f) THEN rec[f] ELSE Undefined

\* db.setObjectField(key, field, value): creates the hash when it has none
SetObjectField(o, k, f, v) ==
  LET old == IF k \in DOMAIN o THEN o[k] ELSE << >>
      new == [x \in (IF k \in DOMAIN o THEN DOMAIN o[k] ELSE {}) \cup {f} |->
                IF x = f THEN v ELSE old[x]]
  IN  [x \in DOMAIN o \cup {k} |-> IF x = k THEN new ELSE o[x]]

\* db.decrObjectField(key, field)
DecrObjectField(o, k, f) ==
  SetObjectField(o, k, f, (IF HasField(GetObject(o, k), f) THEN o[k][f] ELSE 0) - 1)

\* ------------------------------------------------------------- initial data
\* Two registered users, 1 and 2, who share an IP; 2 follows 1. User 1 has
\* content, votes, subscriptions and an email. The stored followerCount of 1
\* and followingCount of 2 have drifted from the sizes of followers:1 and
\* following:2. Of a user 3 deleted earlier, a recount that raced with the
\* deletion has left a record holding a followingCount and nothing else.
P3 == <<"3">>
P4 == <<"4">>
P9 == <<"9">>
T6 == <<"6">>
T7 == <<"7">>
T8 == <<"8">>
F1 == <<"f">>
Q1 == <<"q", "1">>
Q2 == <<"q", "2">>
IpA == <<"i", "p">>
TagG == <<"g">>
R0 == <<"r", "0">>
R1 == <<"r", "1">>
Name1 == <<"A", "l">>
Name2 == <<"b", "o">>
Mail1 == <<"A", "@", "x">>
T0 == <<"0">>

Z(members) == [i \in 1..Len(members) |-> E(members[i], T0)]

InitZsets ==
  (G("users:joindate") :> Z(<<U1, U2>>)) @@
  (G("users:online") :> Z(<<U1>>)) @@
  (Key("followers:", U1, "") :> Z(<<U2>>)) @@
  (Key("following:", U2, "") :> Z(<<U1>>)) @@
  (Key("uid:", U1, ":ip") :> Z(<<IpA>>)) @@
  (Key("uid:", U2, ":ip") :> Z(<<IpA>>)) @@
  (Key("ip:", IpA, ":uid") :> Z(<<U1, U2>>)) @@
  (Key("uid:", U1, ":followed_tids") :> Z(<<T7>>)) @@
  (Key("uid:", U2, ":followed_tids") :> Z(<<T7>>)) @@
  (Key("uid:", U1, ":ignored_tids") :> Z(<<T8>>)) @@
  (Key("uid:", U1, ":followed_tags") :> Z(<<TagG>>)) @@
  (Key("tag:", TagG, ":followers") :> Z(<<U1>>)) @@
  (Key("uid:", U1, ":posts") :> Z(<<P3, P4>>)) @@
  (Key("uid:", U1, ":topics") :> Z(<<T6>>)) @@
  (Key("uid:", U1, ":uploads") :> Z(<<F1>>)) @@
  (Key("uid:", U1, ":upvote") :> Z(<<P9>>)) @@
  (Key("uid:", U1, ":chat:rooms") :> Z(<<R1>>)) @@
  (G("chat:rooms:public") :> Z(<<R0>>)) @@
  (G("post:queue") :> Z(<<Q1, Q2>>)) @@
  (G("username:uid") :> <<E(Name1, U1), E(Name2, U2)>>) @@
  (G("username:sorted") :>
     <<E(ToLowerCase(Name1) \o <<":">> \o U1, T0), E(ToLowerCase(Name2) \o <<":">> \o U2, T0)>>) @@
  (G("userslug:uid") :> <<E(ToLowerCase(Name1), U1), E(ToLowerCase(Name2), U2)>>) @@
  (G("email:uid") :> <<E(ToLowerCase(Mail1), U1)>>) @@
  (G("email:sorted") :> <<E(ToLowerCase(Mail1) \o <<":">> \o U1, T0)>>)

InitSets ==
  (Key("tid:", T7, ":followers") :> {U1, U2}) @@
  (Key("tid:", T8, ":ignorers") :> {U1})

InitObjects ==
  (Key("user:", U1, "") :>
     [username |-> Name1, userslug |-> ToLowerCase(Name1), email |-> Mail1,
      followerCount |-> 4, followingCount |-> 0]) @@
  (Key("user:", U2, "") :>
     [username |-> Name2, userslug |-> ToLowerCase(Name2),
      followerCount |-> 0, followingCount |-> 5]) @@
  (Key("user:", U3, "") :> [followingCount |-> 0]) @@
  (G("global") :> [userCount |-> 2]) @@
  (Key("post:queue:", Q1, "") :> [id |-> Q1, uid |-> U1]) @@
  (Key("post:queue:", Q2, "") :> [id |-> Q2, uid |-> U2])

IdleProc ==
  [pc |-> "idle", op |-> "none", uid |-> <<>>, res |-> "none", errAt |-> "none",
   userData |-> Null, reg |-> <<>>, n |-> 0, start |-> 0, acc |-> <<>>,
   followers |-> <<>>, following |-> <<>>, ft |-> {}, did |-> {},
   nth |-> 0, first |-> "none", retry |-> FALSE, rt |-> "none", round |-> 0]

Init ==
  /\ deletesInProgress = [u \in UidInputs |-> NoEntry]
  /\ zsets = InitZsets
  /\ sets = InitSets
  /\ objects = InitObjects
  /\ proc = [p \in Procs |-> IdleProc]
  /\ fails = 0
  /\ decrOf = [u \in UidInputs |-> 0]
  /\ hist = [u \in UidInputs |-> <<>>]

\* ------------------------------------------------------------- call plumbing
store == <<zsets, sets, objects>>

At(p, pc) == proc[p].pc = pc

\* a slot takes the next call; the slots are interchangeable, so "p" goes first
Free(p) == At(p, "idle") /\ (p = "q" => ~At("p", "idle"))

\* the call moves on to its next awaited step
Adv(r, pc) == [r EXCEPT !.pc = pc, !.did = @ \cup {r.pc}]

\* the call settles: "ok", or the error that reaches the caller
Finish(r, res) ==
  [r EXCEPT !.pc = "done", !.res = res, !.did = @ \cup {r.pc},
            !.errAt = IF res = "error" THEN r.pc ELSE "none",
            !.reg = <<>>, !.n = 0, !.start = 0, !.acc = <<>>]

HistDone(r, res) == [hist EXCEPT ![r.uid][r.nth].st = res]

\* positions between acquiring a phase's guard entry and releasing it
ContentPcs ==
  {"c_img1", "c_img2", "c_posts_fetch", "c_posts_purge", "c_topics_fetch",
   "c_topics_purge", "c_uploads_read", "c_uploads_del", "c_queue_fetch",
   "c_queue_objs", "c_queue_rm", "c_end"}

AccountPcs ==
  {"a_rmsorted", "a_getuser", "a_check", "a_hook", "a_votes_up", "a_votes_down",
   "a_unvote", "a_chats_read", "a_leave", "a_revoke", "a_bulk", "a_decr",
   "a_delkeys", "a_invite", "a_ips_read", "a_ips_rm", "a_ips_del",
   "a_fol_read1", "a_fol_read2", "a_fol_par", "a_ftids_read", "a_ftids_rm",
   "a_itids_read", "a_itids_rm", "a_tags_read", "a_tags_rm", "a_img1", "a_img2",
   "a_groups", "a_flags", "a_reset", "a_email", "a_final", "a_end"}

\* what the first call for uid is doing when a second one is issued
FirstCallState(uid) ==
  IF Len(hist[uid]) # 1 \/ hist[uid][1].op # "delete" THEN "none"
  ELSE IF hist[uid][1].st # "run" THEN hist[uid][1].st
  ELSE LET q == CHOOSE x \in Procs : proc[x].uid = uid /\ proc[x].nth = 1
       IN  IF proc[q].pc \in ContentPcs THEN "content"
           ELSE IF proc[q].pc \in AccountPcs THEN "account" ELSE "gap"

\* a call is a retry when the one call made for uid before it failed at some
\* step, and it invokes the same entry point again, or the full User.delete
IsRetry(op, uid) ==
  /\ Len(hist[uid]) = 1
  /\ hist[uid][1].st = "error"
  /\ op \in {hist[uid][1].op, "delete"}

NewCall(op, uid) ==
  [IdleProc EXCEPT !.op = op, !.uid = uid, !.nth = Len(hist[uid]) + 1,
                   !.first = IF op = "delete" THEN FirstCallState(uid) ELSE "none",
                   !.retry = IsRetry(op, uid)]

HistCall(op, uid) == [hist EXCEPT ![uid] = Append(@, [op |-> op, st |-> "run"])]

\* ------------------------------------------------------------- the guard
\* line 31: parseInt(uid, 10) <= 0
InvalidUid(uid) == LeqZero(ParseInt(uid))

\* line 34 weakened to the test of line 98: only an entry of its own phase blocks
ContentGuardHeld_OwnTagOnly(uid) == deletesInProgress[uid] = "user.delete"

\* line 34: deletesInProgress[uid] is truthy
ContentGuardHeld(uid) == deletesInProgress[uid] # NoEntry

\* line 98: deletesInProgress[uid] === 'user.deleteAccount'
AccountGuardHeld(uid) == deletesInProgress[uid] = "user.deleteAccount"

\* delete deletesInProgress[uid]
Release(uid) == [deletesInProgress EXCEPT ![uid] = NoEntry]

\* ------------------------------------------------------------- User.deleteContent
\* lines 34-36 with the entry deleted on the way out, as a finally block
\* around the whole function would do
DeleteContentEntry_ReleasesOnReject(p, op, uid) ==
  /\ Free(p)
  /\ IF InvalidUid(uid)
       THEN /\ proc' = [proc EXCEPT ![p] = Finish(NewCall(op, uid), "invalid-uid")]
            /\ hist' = [hist EXCEPT ![uid] = Append(@, [op |-> op, st |-> "invalid-uid"])]
            /\ UNCHANGED deletesInProgress
       ELSE IF ContentGuardHeld(uid)
       THEN /\ proc' = [proc EXCEPT ![p] = Finish(NewCall(op, uid), "already-deleting")]
            /\ hist' = [hist EXCEPT ![uid] = Append(@, [op |-> op, st |-> "already-deleting"])]
            /\ deletesInProgress' = Release(uid)
       ELSE /\ proc' = [proc EXCEPT ![p] = Adv(NewCall(op, uid), "c_img1")]
            /\ hist' = HistCall(op, uid)
            /\ deletesInProgress' = [deletesInProgress EXCEPT ![uid] = "user.delete"]
  /\ UNCHANGED <<store, fails, decrOf>>

\* lines 29-37, and deleteImages up to its first await: the synchronous
\* prefix of User.delete(callerUid, uid) and of User.deleteContent(callerUid, uid)
DeleteContentEntry(p, op, uid) ==
  /\ Free(p)
  /\ IF InvalidUid(uid)
       THEN /\ proc' = [proc EXCEPT ![p] = Finish(NewCall(op, uid), "invalid-uid")]
            /\ hist' = [hist EXCEPT ![uid] = Append(@, [op |-> op, st |-> "invalid-uid"])]
            /\ UNCHANGED deletesInProgress
       ELSE IF ContentGuardHeld(uid)
       THEN /\ proc' = [proc EXCEPT ![p] = Finish(NewCall(op, uid), "already-deleting")]
            /\ hist' = [hist EXCEPT ![uid] = Append(@, [op |-> op, st |-> "already-deleting"])]
            /\ UNCHANGED deletesInProgress
       ELSE /\ proc' = [proc EXCEPT ![p] = Adv(NewCall(op, uid), "c_img1")]
            /\ hist' = HistCall(op, uid)
            /\ deletesInProgress' = [deletesInProgress EXCEPT ![uid] = "user.delete"]
  /\ UNCHANGED <<store, fails, decrOf>>

\* deleteImages, line 289: rimraf of the cover images
ContentRimrafCover(p) ==
  /\ At(p, "c_img1")
  /\ proc' = [proc EXCEPT ![p] = Adv(@, "c_img2")]
  /\ UNCHANGED <<deletesInProgress, store, fails, decrOf, hist>>

\* line 44 not awaited in its turn: after the images the topics scan starts
ContentRimrafAvatar_SkipsPosts(p) ==
  /\ At(p, "c_img2")
  /\ proc' = [proc EXCEPT ![p] = [Adv(@, "c_topics_fetch") EXCEPT !.start = 0]]
  /\ UNCHANGED <<deletesInProgress, store, fails, decrOf, hist>>

\* deleteImages, line 292: rimraf of the avatars; then deletePosts issues its first fetch
ContentRimrafAvatar(p) ==
  /\ At(p, "c_img2")
  /\ proc' = [proc EXCEPT ![p] = [Adv(@, "c_posts_fetch") EXCEPT !.start = 0]]
  /\ UNCHANGED <<deletesInProgress, store, fails, decrOf, hist>>

\* batch.processSortedSet: one fetch of up to BatchSize members from offset start
Fetch(key, start) == GetSortedSetSlice(zsets, key, start, start + BatchSize - 1)

\* batch.processSortedSet: after a chunk of n members was handled, scan on or stop
ScanEnds(n) == n < BatchSize

\* line 52 with the handler run on an empty fetch as well
PostsFetch_HandlesEmpty(p) ==
  /\ At(p, "c_posts_fetch")
  /\ LET ids == Fetch(Key("uid:", proc[p].uid, ":posts"), proc[p].start)
     IN  proc' = [proc EXCEPT ![p] = [Adv(@, "c_posts_purge") EXCEPT !.reg = ids, !.n = Len(ids)]]
  /\ UNCHANGED <<deletesInProgress, store, fails, decrOf, hist>>

\* deletePosts, line 52: fetch a chunk of uid:<uid>:posts
PostsFetch(p) ==
  /\ At(p, "c_posts_fetch")
  /\ LET ids == Fetch(Key("uid:", proc[p].uid, ":posts"), proc[p].start)
     IN  proc' = [proc EXCEPT ![p] =
           IF ids = <<>> THEN [Adv(@, "c_topics_fetch") EXCEPT !.start = 0, !.reg = <<>>]
           ELSE [Adv(@, "c_posts_purge") EXCEPT !.reg = ids, !.n = Len(ids)]]
  /\ UNCHANGED <<deletesInProgress, store, fails, decrOf, hist>>

\* posts.purge(pids, callerUid): the posts are gone from their authors' indices
PurgePosts(z, pids) ==
  NormZ([k \in DOMAIN z |->
    IF k[1] = "uid:" /\ k[3] = ":posts"
      THEN SelectSeq(z[k], LAMBDA e : e.m \notin Range(pids)) ELSE z[k]])

\* topics.purge(tid, callerUid): the topic is gone from its author's index
PurgeTopic(z, tid) ==
  NormZ([k \in DOMAIN z |->
    IF k[1] = "uid:" /\ k[3] = ":topics"
      THEN SelectSeq(z[k], LAMBDA e : e.m # tid) ELSE z[k]])

\* line 54 without alwaysStartAt: the next fetch starts one batch further on
PostsPurge_AdvancesOffset(p) ==
  /\ At(p, "c_posts_purge")
  /\ zsets' = PurgePosts(zsets, proc[p].reg)
  /\ proc' = [proc EXCEPT ![p] =
       IF ScanEnds(proc[p].n)
         THEN [Adv(@, "c_topics_fetch") EXCEPT !.start = 0, !.reg = <<>>, !.n = 0]
         ELSE [Adv(@, "c_posts_fetch") EXCEPT !.start = proc[p].start + BatchSize,
                                              !.reg = <<>>, !.n = 0]]
  /\ UNCHANGED <<deletesInProgress, sets, objects, fails, decrOf, hist>>

\* deletePosts, line 53: posts.purge of the chunk; alwaysStartAt: 0
PostsPurge(p) ==
  /\ At(p, "c_posts_purge")
  /\ zsets' = PurgePosts(zsets, proc[p].reg)
  /\ proc' = [proc EXCEPT ![p] =
       IF ScanEnds(proc[p].n)
         THEN [Adv(@, "c_topics_fetch") EXCEPT !.start = 0, !.reg = <<>>, !.n = 0]
         ELSE [Adv(@, "c_posts_fetch") EXCEPT !.start = 0, !.reg = <<>>, !.n = 0]]
  /\ UNCHANGED <<deletesInProgress, sets, objects, fails, decrOf, hist>>

\* deleteTopics, line 58: fetch a chunk of uid:<uid>:topics
TopicsFetch(p) ==
  /\ At(p, "c_topics_fetch")
  /\ LET ids == Fetch(Key("uid:", proc[p].uid, ":topics"), proc[p].start)
     IN  proc' = [proc EXCEPT ![p] =
           IF ids = <<>> THEN [Adv(@, "c_uploads_read") EXCEPT !.reg = <<>>]
           ELSE [Adv(@, "c_topics_purge") EXCEPT !.reg = ids, !.n = Len(ids)]]
  /\ UNCHANGED <<deletesInProgress, store, fails, decrOf, hist>>

\* deleteTopics, lines 59-61: topics.purge of the chunk's next topic, one per call
TopicsPurge(p) ==
  /\ At(p, "c_topics_purge")
  /\ zsets' = PurgeTopic(zsets, Head(proc[p].reg))
  /\ proc' = [proc EXCEPT ![p] =
       IF Tail(proc[p].reg) # <<>> THEN [Adv(@, "c_topics_purge") EXCEPT !.reg = Tail(@)]
       ELSE IF ScanEnds(proc[p].n) THEN [Adv(@, "c_uploads_read") EXCEPT !.reg = <<>>, !.n = 0]
       ELSE [Adv(@, "c_topics_fetch") EXCEPT !.start = 0, !.reg = <<>>, !.n = 0]]
  /\ UNCHANGED <<deletesInProgress, sets, objects, fails, decrOf, hist>>

\* deleteUploads, line 66: db.getSortedSetMembers of uid:<uid>:uploads
UploadsRead(p) ==
  /\ At(p, "c_uploads_read")
  /\ proc' = [proc EXCEPT ![p] =
       [Adv(@, "c_uploads_del") EXCEPT
          !.reg = GetSortedSetRange(zsets, Key("uid:", proc[p].uid, ":uploads"))]]
  /\ UNCHANGED <<deletesInProgress, store, fails, decrOf, hist>>

\* deleteUploads, line 67: User.deleteUpload(callerUid, uid, uploads); then
\* deleteQueued issues its first fetch
UploadsDelete(p) ==
  /\ At(p, "c_uploads_del")
  /\ zsets' = NormZ([k \in DOMAIN zsets |->
       IF k = Key("uid:", proc[p].uid, ":uploads")
         THEN SelectSeq(zsets[k], LAMBDA e : e.m \notin Range(proc[p].reg)) ELSE zsets[k]])
  /\ proc' = [proc EXCEPT ![p] =
       [Adv(@, "c_queue_fetch") EXCEPT !.start = 0, !.reg = <<>>, !.acc = <<>>]]
  /\ UNCHANGED <<deletesInProgress, sets, objects, fails, decrOf, hist>>

\* deleteQueued, line 72: fetch a chunk of the global post:queue
QueueFetch(p) ==
  /\ At(p, "c_queue_fetch")
  /\ LET ids == Fetch(G("post:queue"), proc[p].start)
     IN  proc' = [proc EXCEPT ![p] =
           IF ids # <<>> THEN [Adv(@, "c_queue_objs") EXCEPT !.reg = ids, !.n = Len(ids)]
           ELSE IF proc[p].acc # <<>>
             THEN [Adv(@, "c_queue_rm") EXCEPT !.reg = proc[p].acc, !.acc = <<>>, !.start = 0]
           ELSE [Adv(@, "c_end") EXCEPT !.reg = <<>>, !.start = 0]]
  /\ UNCHANGED <<deletesInProgress, store, fails, decrOf, hist>>

\* line 74: data.filter(d => parseInt(d.uid, 10) === parseInt(uid, 10)).map(d => d.id)
UserQueuedIds(data, uid) ==
  LET hits == SelectSeq(data, LAMBDA d : StrictEq(ParseInt(Field(d, "uid")), ParseInt(uid)))
  IN  [i \in 1..Len(hits) |-> Field(hits[i], "id")]

\* line 75 as a plain assignment: deleteIds = userQueuedIds
Accumulate_Overwrites(acc, ids) == ids

\* line 75: deleteIds = deleteIds.concat(userQueuedIds)
Accumulate(acc, ids) == acc \o ids

\* deleteQueued, lines 73-75: db.getObjects of the chunk, filter, accumulate.
\* A queue entry removed since the fetch reads as null, and d.uid then throws.
QueueObjects(p) ==
  /\ At(p, "c_queue_objs")
  /\ LET r == proc[p]
         data == [i \in 1..Len(r.reg) |-> GetObject(objects, Key("post:queue:", r.reg[i], ""))]
         deleteIds == Accumulate(r.acc, UserQueuedIds(data, r.uid))
     IN  IF \E i \in 1..Len(data) : data[i] = Null
           THEN /\ proc' = [proc EXCEPT ![p] = Finish(@, "error")]
                /\ hist' = HistDone(r, "error")
           ELSE /\ proc' = [proc EXCEPT ![p] =
                     IF ~ScanEnds(r.n)
                       THEN [Adv(@, "c_queue_fetch") EXCEPT
                               !.start = r.start + BatchSize, !.reg = <<>>, !.acc = deleteIds,
                               !.n = 0]
                     ELSE IF deleteIds # <<>>
                       THEN [Adv(@, "c_queue_rm") EXCEPT
                               !.reg = deleteIds, !.acc = <<>>, !.n = 0, !.start = 0]
                     ELSE [Adv(@, "c_end") EXCEPT !.reg = <<>>, !.acc = <<>>, !.n = 0, !.start = 0]]
                /\ UNCHANGED hist
  /\ UNCHANGED <<deletesInProgress, store, fails, decrOf>>

\* deleteQueued, line 77: posts.removeFromQueue of the next accumulated id
QueueRemove(p) ==
  /\ At(p, "c_queue_rm")
  /\ LET id == Head(proc[p].reg)
     IN  /\ zsets' = SortedSetsRemove(zsets, {G("post:queue")}, id)
         /\ objects' = DeleteKeys(objects, {Key("post:queue:", id, "")})
  /\ proc' = [proc EXCEPT ![p] =
       IF Tail(proc[p].reg) # <<>> THEN [Adv(@, "c_queue_rm") EXCEPT !.reg = Tail(@)]
       ELSE [Adv(@, "c_end") EXCEPT !.reg = <<>>, !.acc = <<>>]]
  /\ UNCHANGED <<deletesInProgress, sets, fails, decrOf, hist>>

\* line 48 left out: deleteContent returns with its entry still in place
ContentEnd_KeepsEntry(p) ==
  /\ At(p, "c_end")
  /\ IF proc[p].op = "delete"
       THEN /\ proc' = [proc EXCEPT ![p] = Adv(@, "a_start")]
            /\ UNCHANGED hist
       ELSE /\ proc' = [proc EXCEPT ![p] = Finish(@, "ok")]
            /\ hist' = HistDone(proc[p], "ok")
  /\ UNCHANGED <<deletesInProgress, store, fails, decrOf>>

\* line 48, and the return: deleteContent releases its entry; User.delete
\* goes on to call User.deleteAccount (line 26)
ContentEnd(p) ==
  /\ At(p, "c_end")
  /\ deletesInProgress' = Release(proc[p].uid)
  /\ IF proc[p].op = "delete"
       THEN /\ proc' = [proc EXCEPT ![p] = Adv(@, "a_start")]
            /\ UNCHANGED hist
       ELSE /\ proc' = [proc EXCEPT ![p] = Finish(@, "ok")]
            /\ hist' = HistDone(proc[p], "ok")
  /\ UNCHANGED <<store, fails, decrOf>>

\* ------------------------------------------------------------- User.deleteAccount
\* lines 98-101 on an entry record r
AccountEntry(r) ==
  IF AccountGuardHeld(r.uid) THEN Finish(r, "already-deleting") ELSE Adv(r, "a_rmsorted")

\* lines 96-101: User.deleteAccount(uid) called directly
DeleteAccountCall(p, uid) ==
  /\ Free(p)
  /\ LET r == AccountEntry(NewCall("deleteAccount", uid))
     IN  /\ proc' = [proc EXCEPT ![p] = r]
         /\ hist' = [hist EXCEPT ![uid] =
                       Append(@, [op |-> "deleteAccount",
                                  st |-> IF r.pc = "done" THEN r.res ELSE "run"])]
         /\ deletesInProgress' =
              IF r.pc = "done" THEN deletesInProgress
              ELSE [deletesInProgress EXCEPT ![uid] = "user.deleteAccount"]
  /\ UNCHANGED <<store, fails, decrOf>>

\* lines 26, 96-101: User.delete goes on from deleteContent into deleteAccount
DeleteAccountFromDelete(p) ==
  /\ At(p, "a_start")
  /\ LET r == AccountEntry(proc[p])
     IN  /\ proc' = [proc EXCEPT ![p] = r]
         /\ hist' = IF r.pc = "done" THEN HistDone(proc[p], r.res) ELSE hist
         /\ deletesInProgress' =
              IF r.pc = "done" THEN deletesInProgress
              ELSE [deletesInProgress EXCEPT ![proc[p].uid] = "user.deleteAccount"]
  /\ UNCHANGED <<store, fails, decrOf>>

\* lines 81-93
LeaderboardKeys ==
  {G("users:joindate"), G("users:postcount"), G("users:reputation"), G("users:banned"),
   G("users:banned:expire"), G("users:flags"), G("users:online"), G("digest:day:uids"),
   G("digest:week:uids"), G("digest:biweek:uids"), G("digest:month:uids")}

\* removeFromSortedSets, line 103
RemoveFromSortedSets(p) ==
  /\ At(p, "a_rmsorted")
  /\ zsets' = SortedSetsRemove(zsets, LeaderboardKeys, proc[p].uid)
  /\ proc' = [proc EXCEPT ![p] = Adv(@, "a_getuser")]
  /\ UNCHANGED <<deletesInProgress, sets, objects, fails, decrOf, hist>>

\* line 104: db.getObject(`user:${uid}`)
GetUser(p) ==
  /\ At(p, "a_getuser")
  /\ proc' = [proc EXCEPT ![p] =
       [Adv(@, "a_check") EXCEPT !.userData = GetObject(objects, Key("user:", proc[p].uid, ""))]]
  /\ UNCHANGED <<deletesInProgress, store, fails, decrOf, hist>>

\* line 106 weakened: the username is not looked at
UserMissing_NullOnly(userData) == userData = Null

\* line 106: !userData || !userData.username
UserMissing(userData) == userData = Null \/ ~HasField(userData, "username")

\* line 107, ahead of the throw of line 108
ReleaseNoUser(uid) == Release(uid)

\* lines 106-111: no such user, or on to the plugin hook
CheckUser(p) ==
  /\ At(p, "a_check")
  /\ IF UserMissing(proc[p].userData)
       THEN /\ deletesInProgress' = ReleaseNoUser(proc[p].uid)
            /\ proc' = [proc EXCEPT ![p] = Finish(@, "no-user")]
            /\ hist' = HistDone(proc[p], "no-user")
       ELSE /\ proc' = [proc EXCEPT ![p] = Adv(@, "a_hook")]
            /\ UNCHANGED <<deletesInProgress, hist>>
  /\ UNCHANGED <<store, fails, decrOf>>

\* a step with no effect on the modelled store: the call moves on
Pass(p, from, to) ==
  /\ At(p, from)
  /\ proc' = [proc EXCEPT ![p] = Adv(@, to)]
  /\ UNCHANGED <<deletesInProgress, store, fails, decrOf, hist>>

\* line 111: plugins.hooks.fire('static:user.delete', ...)
FireHook(p) == Pass(p, "a_hook", "a_votes_up")

\* deleteVotes, line 211: the upvoted pids
VotesReadUp(p) ==
  /\ At(p, "a_votes_up")
  /\ proc' = [proc EXCEPT ![p] =
       [Adv(@, "a_votes_down") EXCEPT
          !.reg = GetSortedSetRange(zsets, Key("uid:", proc[p].uid, ":upvote"))]]
  /\ UNCHANGED <<deletesInProgress, store, fails, decrOf, hist>>

RECURSIVE Uniq(_)
\* _.uniq: first occurrences, in order
Uniq(s) ==
  IF s = <<>> THEN <<>>
  ELSE LET init == Uniq(SubSeq(s, 1, Len(s) - 1))
       IN  IF s[Len(s)] \in Range(init) THEN init ELSE Append(init, s[Len(s)])

\* line 214: _.uniq(upvotedPids.concat(downvotedPids).filter(Boolean))
VotedPids(up, down) == Uniq(SelectSeq(up \o down, LAMBDA m : m # <<>>))

\* deleteVotes, lines 212-214: the downvoted pids, and the pids to retract
VotesReadDown(p) ==
  /\ At(p, "a_votes_down")
  /\ LET pids == VotedPids(proc[p].reg,
                           GetSortedSetRange(zsets, Key("uid:", proc[p].uid, ":downvote")))
     IN  proc' = [proc EXCEPT ![p] =
           IF pids = <<>> THEN [Adv(@, "a_chats_read") EXCEPT !.reg = <<>>]
           ELSE [Adv(@, "a_unvote") EXCEPT !.reg = pids]]
  /\ UNCHANGED <<deletesInProgress, store, fails, decrOf, hist>>

\* deleteVotes, lines 215-217: posts.unvote(pid, uid) of the next pid
Unvote(p) ==
  /\ At(p, "a_unvote")
  /\ zsets' = SortedSetRemoveBulk(zsets,
       {<<Key("uid:", proc[p].uid, ":upvote"), Head(proc[p].reg)>>,
        <<Key("uid:", proc[p].uid, ":downvote"), Head(proc[p].reg)>>})
  /\ proc' = [proc EXCEPT ![p] =
       IF Tail(proc[p].reg) # <<>> THEN [Adv(@, "a_unvote") EXCEPT !.reg = Tail(@)]
       ELSE [Adv(@, "a_chats_read") EXCEPT !.reg = <<>>]]
  /\ UNCHANGED <<deletesInProgress, sets, objects, fails, decrOf, hist>>

\* deleteChats, lines 221-223: the user's rooms and the public rooms
ChatsRead(p) ==
  /\ At(p, "a_chats_read")
  /\ proc' = [proc EXCEPT ![p] =
       [Adv(@, "a_leave") EXCEPT
          !.reg = GetSortedSetRange(zsets, Key("uid:", proc[p].uid, ":chat:rooms"))
                    \o GetSortedSetRange(zsets, G("chat:rooms:public"))]]
  /\ UNCHANGED <<deletesInProgress, store, fails, decrOf, hist>>

\* deleteChats, line 224: messaging.leaveRooms(uid, roomIds)
LeaveRooms(p) ==
  /\ At(p, "a_leave")
  /\ zsets' = SortedSetRemoveBulk(zsets,
       {<<Key("uid:", proc[p].uid, ":chat:rooms"), proc[p].reg[i]>> : i \in 1..Len(proc[p].reg)})
  /\ proc' = [proc EXCEPT ![p] = [Adv(@, "a_revoke") EXCEPT !.reg = <<>>]]
  /\ UNCHANGED <<deletesInProgress, sets, objects, fails, decrOf, hist>>

\* line 114: User.auth.revokeAllSessions(uid)
RevokeSessions(p) == Pass(p, "a_revoke", "a_bulk")

\* lines 116-135
PerUserKeys(uid) ==
  {Key("uid:", uid, ":notifications:read"), Key("uid:", uid, ":notifications:unread"),
   Key("uid:", uid, ":bookmarks"), Key("uid:", uid, ":tids_read"),
   Key("uid:", uid, ":tids_unread"), Key("uid:", uid, ":blocked_uids"),
   Key("user:", uid, ":settings"), Key("user:", uid, ":usernames"),
   Key("user:", uid, ":emails"), Key("uid:", uid, ":topics"), Key("uid:", uid, ":posts"),
   Key("uid:", uid, ":chats"), Key("uid:", uid, ":chats:unread"),
   Key("uid:", uid, ":chat:rooms"), Key("uid:", uid, ":chat:rooms:unread"),
   Key("uid:", uid, ":chat:rooms:read"), Key("uid:", uid, ":upvote"),
   Key("uid:", uid, ":downvote"), Key("uid:", uid, ":flag:pids"),
   Key("uid:", uid, ":sessions"), Key("uid:", uid, ":sessionUUID:sessionId"),
   Key("invitation:uid:", uid, "")}

\* a field of the snapshot is truthy
Truthy(userData, f) == HasField(userData, f) /\ userData[f] # <<>>

\* lines 137-150
BulkRemove(userData, uid) ==
  {<<G("username:uid"), Field(userData, "username")>>,
   <<G("username:sorted"), ToLowerCase(Field(userData, "username")) \o <<":">> \o uid>>,
   <<G("userslug:uid"), Field(userData, "userslug")>>,
   <<G("fullname:uid"), Field(userData, "fullname")>>}
  \cup (IF Truthy(userData, "email")
          THEN {<<G("email:uid"), ToLowerCase(userData.email)>>,
                <<G("email:sorted"), ToLowerCase(userData.email) \o <<":">> \o uid>>}
          ELSE {})
  \cup (IF Truthy(userData, "fullname")
          THEN {<<G("fullname:sorted"), ToLowerCase(userData.fullname) \o <<":">> \o uid>>}
          ELSE {})

\* line 154: db.sortedSetRemoveBulk(bulkRemove)
RemoveBulk(p) ==
  /\ At(p, "a_bulk")
  /\ zsets' = SortedSetRemoveBulk(zsets, BulkRemove(proc[p].userData, proc[p].uid))
  /\ proc' = [proc EXCEPT ![p] = Adv(@, "a_decr")]
  /\ UNCHANGED <<deletesInProgress, sets, objects, fails, decrOf, hist>>

\* line 156: db.decrObjectField('global', 'userCount')
DecrUserCount(p) ==
  /\ At(p, "a_decr")
  /\ objects' = DecrObjectField(objects, G("global"), "userCount")
  /\ decrOf' = [decrOf EXCEPT ![proc[p].uid] = @ + 1]
  /\ proc' = [proc EXCEPT ![p] = Adv(@, "a_delkeys")]
  /\ UNCHANGED <<deletesInProgress, zsets, sets, fails, hist>>

\* line 158: db.deleteAll(keys)
DeleteUserKeys(p) ==
  /\ At(p, "a_delkeys")
  /\ zsets' = DeleteKeys(zsets, PerUserKeys(proc[p].uid))
  /\ sets' = DeleteKeys(sets, PerUserKeys(proc[p].uid))
  /\ objects' = DeleteKeys(objects, PerUserKeys(proc[p].uid))
  /\ proc' = [proc EXCEPT ![p] = Adv(@, "a_invite")]
  /\ UNCHANGED <<deletesInProgress, fails, decrOf, hist>>

\* line 160: db.setRemove('invitation:uids', uid)
RemoveInvitation(p) ==
  /\ At(p, "a_invite")
  /\ sets' = SetsRemove(sets, {G("invitation:uids")}, proc[p].uid)
  /\ proc' = [proc EXCEPT ![p] = Adv(@, "a_ips_read")]
  /\ UNCHANGED <<deletesInProgress, zsets, objects, fails, decrOf, hist>>

\* deleteUserIps, line 228
IpsRead(p) ==
  /\ At(p, "a_ips_read")
  /\ proc' = [proc EXCEPT ![p] =
       [Adv(@, "a_ips_rm") EXCEPT
          !.reg = GetSortedSetRange(zsets, Key("uid:", proc[p].uid, ":ip"))]]
  /\ UNCHANGED <<deletesInProgress, store, fails, decrOf, hist>>

\* keys.map(x => `${prefix}${x}${suffix}`)
KeysOf(prefix, ids, suffix) == {Key(prefix, ids[i], suffix) : i \in 1..Len(ids)}

\* deleteUserIps, line 229
IpsRemove(p) ==
  /\ At(p, "a_ips_rm")
  /\ zsets' = SortedSetsRemove(zsets, KeysOf("ip:", proc[p].reg, ":uid"), proc[p].uid)
  /\ proc' = [proc EXCEPT ![p] = [Adv(@, "a_ips_del") EXCEPT !.reg = <<>>]]
  /\ UNCHANGED <<deletesInProgress, sets, objects, fails, decrOf, hist>>

\* deleteUserIps, line 230
IpsDelete(p) ==
  /\ At(p, "a_ips_del")
  /\ zsets' = DeleteKeys(zsets, {Key("uid:", proc[p].uid, ":ip")})
  /\ proc' = [proc EXCEPT ![p] = Adv(@, "a_fol_read1")]
  /\ UNCHANGED <<deletesInProgress, sets, objects, fails, decrOf, hist>>

\* deleteUserFromFollowers, line 235
FollowersRead(p) ==
  /\ At(p, "a_fol_read1")
  /\ proc' = [proc EXCEPT ![p] =
       [Adv(@, "a_fol_read2") EXCEPT
          !.followers = GetSortedSetRange(zsets, Key("followers:", proc[p].uid, ""))]]
  /\ UNCHANGED <<deletesInProgress, store, fails, decrOf, hist>>

\* one pending store call of the Promise.all of lines 250-254
Task(t, name, field, u, c) == [t |-> t, name |-> name, field |-> field, u |-> u, c |-> c]
RmTask == Task("rm", "", "", <<>>, 0)

\* lines 239-245, 250-254: the calls in flight once Promise.all has started
\* its three members: the removal, and one sortedSetCard per user to recount
FollowTasks(followers, following) ==
  {RmTask}
  \cup {Task("card", "followers:", "followerCount", following[i], 0) : i \in 1..Len(following)}
  \cup {Task("card", "following:", "followingCount", followers[i], 0) : i \in 1..Len(followers)}

\* deleteUserFromFollowers, lines 236-254: read following:<uid>, then start
\* the removal and the recounts together
FollowingRead(p) ==
  /\ At(p, "a_fol_read2")
  /\ LET following == GetSortedSetRange(zsets, Key("following:", proc[p].uid, ""))
     IN  proc' = [proc EXCEPT ![p] =
           [Adv(@, "a_fol_par") EXCEPT !.following = following,
                                       !.ft = FollowTasks(proc[p].followers, following)]]
  /\ UNCHANGED <<deletesInProgress, store, fails, decrOf, hist>>

\* lines 247-251: db.sortedSetsRemove(followerSets.concat(followingSets), uid)
FollowRemove(p) ==
  /\ RmTask \in proc[p].ft
  /\ zsets' = SortedSetsRemove(zsets,
       KeysOf("followers:", proc[p].following, "") \cup KeysOf("following:", proc[p].followers, ""),
       proc[p].uid)
  /\ proc' = [proc EXCEPT ![p].ft = @ \ {RmTask}]
  /\ UNCHANGED <<deletesInProgress, sets, objects, fails, decrOf, hist>>

\* line 242: parseInt(count, 10) || 0
CountValue(card) == IF card = 0 THEN 0 ELSE card

\* updateCount, line 241: db.sortedSetCard(name + uid)
FollowCard(p, t) ==
  /\ t \in proc[p].ft
  /\ t.t = "card"
  /\ proc' = [proc EXCEPT ![p].ft =
       (@ \ {t}) \cup {Task("set", t.name, t.field, t.u,
                            CountValue(SortedSetCard(zsets, Key(t.name, t.u, ""))))}]
  /\ UNCHANGED <<deletesInProgress, store, fails, decrOf, hist>>

\* updateCount, line 243: db.setObjectField(`user:${uid}`, fieldName, count)
FollowSetCount(p, t) ==
  /\ t \in proc[p].ft
  /\ t.t = "set"
  /\ objects' = SetObjectField(objects, Key("user:", t.u, ""), t.field, t.c)
  /\ proc' = [proc EXCEPT ![p].ft = @ \ {t}]
  /\ UNCHANGED <<deletesInProgress, zsets, sets, fails, decrOf, hist>>

\* line 250 without the await: the caller goes on while the members run
FollowJoin_DoesNotWait(p) ==
  /\ At(p, "a_fol_par")
  /\ proc' = [proc EXCEPT ![p] =
       [Adv(@, "a_ftids_read") EXCEPT !.followers = <<>>, !.following = <<>>]]
  /\ UNCHANGED <<deletesInProgress, store, fails, decrOf, hist>>

\* line 254: Promise.all resolves once every member has
FollowJoin(p) ==
  /\ At(p, "a_fol_par")
  /\ proc[p].ft = {}
  /\ proc' = [proc EXCEPT ![p] =
       [Adv(@, "a_ftids_read") EXCEPT !.followers = <<>>, !.following = <<>>]]
  /\ UNCHANGED <<deletesInProgress, store, fails, decrOf, hist>>

\* deleteUserFromFollowedTopics, line 195
FollowedTidsRead(p) ==
  /\ At(p, "a_ftids_read")
  /\ proc' = [proc EXCEPT ![p] =
       [Adv(@, "a_ftids_rm") EXCEPT
          !.reg = GetSortedSetRange(zsets, Key("uid:", proc[p].uid, ":followed_tids"))]]
  /\ UNCHANGED <<deletesInProgress, store, fails, decrOf, hist>>

\* deleteUserFromFollowedTopics, line 196
FollowedTidsRemove(p) ==
  /\ At(p, "a_ftids_rm")
  /\ sets' = SetsRemove(sets, KeysOf("tid:", proc[p].reg, ":followers"), proc[p].uid)
  /\ proc' = [proc EXCEPT ![p] = [Adv(@, "a_itids_read") EXCEPT !.reg = <<>>]]
  /\ UNCHANGED <<deletesInProgress, zsets, objects, fails, decrOf, hist>>

\* deleteUserFromIgnoredTopics, line 200
IgnoredTidsRead(p) ==
  /\ At(p, "a_itids_read")
  /\ proc' = [proc EXCEPT ![p] =
       [Adv(@, "a_itids_rm") EXCEPT
          !.reg = GetSortedSetRange(zsets, Key("uid:", proc[p].uid, ":ignored_tids"))]]
  /\ UNCHANGED <<deletesInProgress, store, fails, decrOf, hist>>

\* deleteUserFromIgnoredTopics, line 201
IgnoredTidsRemove(p) ==
  /\ At(p, "a_itids_rm")
  /\ sets' = SetsRemove(sets, KeysOf("tid:", proc[p].reg, ":ignorers"), proc[p].uid)
  /\ proc' = [proc EXCEPT ![p] = [Adv(@, "a_tags_read") EXCEPT !.reg = <<>>]]
  /\ UNCHANGED <<deletesInProgress, zsets, objects, fails, decrOf, hist>>

\* deleteUserFromFollowedTags, line 205
FollowedTagsRead(p) ==
  /\ At(p, "a_tags_read")
  /\ proc' = [proc EXCEPT ![p] =
       [Adv(@, "a_tags_rm") EXCEPT
          !.reg = GetSortedSetRange(zsets, Key("uid:", proc[p].uid, ":followed_tags"))]]
  /\ UNCHANGED <<deletesInProgress, store, fails, decrOf, hist>>

\* deleteUserFromFollowedTags, line 206
FollowedTagsRemove(p) ==
  /\ At(p, "a_tags_rm")
  /\ zsets' = SortedSetsRemove(zsets, KeysOf("tag:", proc[p].reg, ":followers"), proc[p].uid)
  /\ proc' = [proc EXCEPT ![p] = [Adv(@, "a_img1") EXCEPT !.reg = <<>>]]
  /\ UNCHANGED <<deletesInProgress, sets, objects, fails, decrOf, hist>>

\* line 172, deleteImages line 289
AccountRimrafCover(p) == Pass(p, "a_img1", "a_img2")

\* deleteImages line 292
AccountRimrafAvatar(p) == Pass(p, "a_img2", "a_groups")

\* line 174: groups.leaveAllGroups(uid)
LeaveAllGroups(p) == Pass(p, "a_groups", "a_flags")

\* line 176: flags.resolveFlag('user', uid, uid)
ResolveFlag(p) == Pass(p, "a_flags", "a_reset")

\* line 178: User.reset.cleanByUid(uid)
CleanReset(p) == Pass(p, "a_reset", "a_email")

\* line 180: User.email.expireValidation(uid)
ExpireValidation(p) == Pass(p, "a_email", "a_final")

\* lines 184-188
FinalKeys(uid) ==
  {Key("followers:", uid, ""), Key("following:", uid, ""), Key("user:", uid, ""),
   Key("uid:", uid, ":followed_tags"), Key("uid:", uid, ":followed_tids"),
   Key("uid:", uid, ":ignored_tids")}

\* lines 184-188: db.deleteAll of the remaining top-level keys
DeleteFinalKeys(p) ==
  /\ At(p, "a_final")
  /\ zsets' = DeleteKeys(zsets, FinalKeys(proc[p].uid))
  /\ sets' = DeleteKeys(sets, FinalKeys(proc[p].uid))
  /\ objects' = DeleteKeys(objects, FinalKeys(proc[p].uid))
  /\ proc' = [proc EXCEPT ![p] = Adv(@, "a_end")]
  /\ UNCHANGED <<deletesInProgress, fails, decrOf, hist>>

\* lines 189-191: release the entry and return the snapshot
AccountEnd(p) ==
  /\ At(p, "a_end")
  /\ deletesInProgress' = Release(proc[p].uid)
  /\ proc' = [proc EXCEPT ![p] = Finish(@, "ok")]
  /\ hist' = HistDone(proc[p], "ok")
  /\ UNCHANGED <<store, fails, decrOf>>

\* ------------------------------------------------------------- failure
\* positions at which nothing is awaited: the code that runs there is synchronous
SyncPcs == {"idle", "done", "c_end", "a_start", "a_check", "a_end"}

ImagePcs == {"c_img1", "c_img2", "a_img1", "a_img2"}

\* The awaited store or collaborator call rejects. No line of either phase
\* catches: the rejection unwinds deleteContent / deleteAccount (and User.delete)
\* and reaches the caller; members of a Promise.all already in flight run on.
Fail(p) ==
  /\ proc[p].pc \notin SyncPcs
  /\ fails < MaxFailures
  /\ fails' = fails + 1
  /\ IF At(p, "a_fol_par")
       THEN \E t \in proc[p].ft : proc' = [proc EXCEPT ![p] = [Finish(@, "error") EXCEPT !.ft = @ \ {t}]]
       ELSE proc' = [proc EXCEPT ![p] = Finish(@, "error")]
  /\ hist' = HistDone(proc[p], "error")
  /\ UNCHANGED <<deletesInProgress, store, decrOf>>

\* a call arrives
Call(p) ==
  \/ \E uid \in UidInputs : DeleteContentEntry(p, "delete", uid)
  \/ \E uid \in UidInputs : DeleteContentEntry(p, "deleteContent", uid)
  \/ \E uid \in UidInputs : DeleteAccountCall(p, uid)

\* the awaited steps of the content phase, and its end
ContentStep(p) ==
  \/ ContentRimrafCover(p) \/ ContentRimrafAvatar(p)
  \/ PostsFetch(p) \/ PostsPurge(p) \/ TopicsFetch(p) \/ TopicsPurge(p)
  \/ UploadsRead(p) \/ UploadsDelete(p)
  \/ QueueFetch(p) \/ QueueObjects(p) \/ QueueRemove(p) \/ ContentEnd(p)

\* the awaited steps of the account phase, and its end
AccountStep(p) ==
  \/ RemoveFromSortedSets(p) \/ GetUser(p) \/ CheckUser(p)
  \/ FireHook(p) \/ VotesReadUp(p) \/ VotesReadDown(p) \/ Unvote(p)
  \/ ChatsRead(p) \/ LeaveRooms(p) \/ RevokeSessions(p)
  \/ RemoveBulk(p) \/ DecrUserCount(p) \/ DeleteUserKeys(p) \/ RemoveInvitation(p)
  \/ IpsRead(p) \/ IpsRemove(p) \/ IpsDelete(p)
  \/ FollowersRead(p) \/ FollowingRead(p) \/ FollowRemove(p)
  \/ (\E t \in proc[p].ft : FollowCard(p, t))
  \/ (\E t \in proc[p].ft : FollowSetCount(p, t))
  \/ FollowJoin(p)
  \/ FollowedTidsRead(p) \/ FollowedTidsRemove(p)
  \/ IgnoredTidsRead(p) \/ IgnoredTidsRemove(p)
  \/ FollowedTagsRead(p) \/ FollowedTagsRemove(p)
  \/ AccountRimrafCover(p) \/ AccountRimrafAvatar(p)
  \/ LeaveAllGroups(p) \/ ResolveFlag(p) \/ CleanReset(p) \/ ExpireValidation(p)
  \/ DeleteFinalKeys(p) \/ AccountEnd(p)

\* Any two calls, of any of the three entry points, in any interleaving.
Next ==
  \E p \in Procs :
    Call(p) \/ ContentStep(p) \/ DeleteAccountFromDelete(p) \/ AccountStep(p) \/ Fail(p)

Spec == Init /\ [][Next]_vars

\* ------------------------------------------------------------- claims
Running(p) == proc[p].pc \in ContentPcs \cup AccountPcs

\* C1: for every uid, at most one call is inside a deletion phase (content or
\* account) for it at any time.
C1_MutualExclusion ==
  \A u \in UidInputs : Cardinality({p \in Procs : proc[p].uid = u /\ Running(p)}) <= 1

\* C2: when a phase ends with an error raised by a step after the guard was
\* acquired, the guard entry of its uid is absent as the error reaches the caller.
C2_NoLeakedGuard ==
  [][\A p \in Procs :
       (proc'[p].res = "error" /\ proc[p].res # "error")
         => deletesInProgress'[proc[p].uid] = NoEntry]_vars

\* C3: of two calls of User.delete for one uid, the second fails with
\* AlreadyDeleting when it is issued while the first is in its content or
\* account phase, fails with UserNotFound when it is issued after the first
\* has completed successfully (unless one of its own steps rejects), and
\* succeeds in neither case.
C3_SecondDeleteFails ==
  \A p \in Procs :
    LET r == proc[p]
    IN  (r.op = "delete" /\ r.nth = 2 /\ hist[r.uid][1].op = "delete")
          => /\ r.first \in {"content", "account"} => r.res = "already-deleting"
             /\ (r.first = "ok" /\ r.pc = "done") => r.res \in {"no-user", "error"}
             /\ r.first \in {"content", "account", "ok"} => r.res # "ok"

C3_Witness ==
  \E p \in Procs :
    /\ proc[p].op = "delete" /\ proc[p].nth = 2 /\ hist[proc[p].uid][1].op = "delete"
    /\ proc[p].first = "account" /\ proc[p].res = "already-deleting"

\* C4: after a successful User.delete of a uid, global.userCount has been
\* decremented exactly once on account of that uid.
C4_DecrementedOnce ==
  \A p \in Procs :
    (proc[p].op = "delete" /\ proc[p].res = "ok") => decrOf[proc[p].uid] = 1

\* the state the spec promises after a full deletion of u
MemberOf(z, k, u) == \E i \in 1..Len(z[k]) : z[k][i].m = u
ScoredBy(z, k, u) == k \in DOMAIN z /\ \E i \in 1..Len(z[k]) : z[k][i].s = u

Clean(u) ==
  /\ Key("user:", u, "") \notin DOMAIN objects
  /\ \A k \in DOMAIN zsets :
       (k[1] \in {"followers:", "following:", "tag:", "ip:"}) => ~MemberOf(zsets, k, u)
  /\ \A k \in DOMAIN sets : k[1] = "tid:" => u \notin sets[k]
  /\ ~ScoredBy(zsets, G("username:uid"), u)
  /\ ~ScoredBy(zsets, G("userslug:uid"), u)
  /\ ~ScoredBy(zsets, G("email:uid"), u)
  /\ deletesInProgress[u] = NoEntry

\* C5: as a successful User.delete of a uid returns, the record, the relation
\* indices and the uniqueness indices hold nothing of the uid, and its guard
\* entry is absent.
C5_CleanAfterDelete ==
  [][\A p \in Procs :
       (proc[p].op = "delete" /\ proc'[p].res = "ok" /\ proc[p].res # "ok")
         => Clean(proc[p].uid)']_vars

CountsMatch(b) ==
  LET rec == GetObject(objects, Key("user:", b, ""))
  IN  /\ HasField(rec, "followerCount")
      /\ rec.followerCount = SortedSetCard(zsets, Key("followers:", b, ""))
      /\ HasField(rec, "followingCount")
      /\ rec.followingCount = SortedSetCard(zsets, Key("following:", b, ""))

\* C6: as deleteUserFromFollowers(A) completes, every user who followed A or
\* was followed by A has a stored followerCount and followingCount equal to
\* the sizes of its followers and following sets.
C6_CountsRecomputed ==
  [][\A p \in Procs :
       (proc[p].pc = "a_fol_par" /\ proc'[p].pc = "a_ftids_read")
         => \A b \in Range(proc[p].followers) \cup Range(proc[p].following) :
              CountsMatch(b)']_vars

\* C7: a call that retries a failed phase (or the full deletion) is admitted,
\* and when it succeeds the store is as after a deletion that never failed.
C7_RetryConverges ==
  \A p \in Procs :
    proc[p].retry
      => /\ proc[p].res # "already-deleting"
         /\ (proc[p].res = "ok" /\ proc[p].op # "deleteContent")
              => (Clean(proc[p].uid) /\ decrOf[proc[p].uid] = 1)

IsPositiveInteger(s) ==
  /\ s # <<>>
  /\ \A i \in 1..Len(s) : s[i] \in Digits
  /\ DecVal(s) > 0

\* C8: User.deleteContent of a uid that is not a positive integer fails with
\* InvalidUser, having done nothing else.
C8_InvalidUidRejected ==
  \A p \in Procs :
    (proc[p].op \in {"delete", "deleteContent"} /\ ~IsPositiveInteger(proc[p].uid))
      => (proc[p].res = "invalid-uid" /\ proc[p].did = {"idle"})

\* C9: no call ends with an error raised by a file removal of deleteImages.
C9_ImageFailureSwallowed ==
  \A p \in Procs : proc[p].errAt \notin ImagePcs

\* C10: User.deleteAccount of a uid whose record is absent or has no username
\* fails with UserNotFound with the guard entry released, having neither
\* decremented userCount, fired the hook, revoked sessions nor deleted a key.
C10_NoUserFailsClean ==
  [][\A p \in Procs :
       LET r == proc[p]
       IN  (r.pc = "a_check" /\ proc'[p].pc # "a_check"
            /\ (r.userData = Null \/ "username" \notin DOMAIN r.userData))
             => /\ proc'[p].res = "no-user"
                /\ deletesInProgress'[r.uid] = NoEntry
                /\ r.did \cap {"a_hook", "a_revoke", "a_decr", "a_delkeys", "a_ips_del",
                               "a_final"} = {}
                /\ store' = store
                /\ decrOf' = decrOf]_vars

C10_Witness ==
  \E p \in Procs :
    /\ proc[p].op = "deleteAccount" /\ proc[p].res = "no-user"
    /\ proc[p].userData # Null
    /\ deletesInProgress[proc[p].uid] = NoEntry

\* C11: within one User.delete the content phase strictly precedes the account
\* phase: the account phase is entered only from the return of deleteContent,
\* which has run to its end and released the guard entry; neither phase is
\* entered a second time; a call that fails in the content phase ends there.
C11_ContentThenAccount ==
  [][\A p \in Procs :
       LET r == proc[p]
           s == proc'[p]
       IN  r.op = "delete" =>
             /\ (s.pc = "a_start" /\ r.pc # "a_start")
                  => (r.pc = "c_end" /\ deletesInProgress'[r.uid] = NoEntry)
             /\ (s.pc \in AccountPcs /\ r.pc \notin AccountPcs)
                  => (r.pc = "a_start" /\ "c_end" \in r.did /\ r.did \cap AccountPcs = {})
             /\ (s.pc \in ContentPcs) => (r.pc \in ContentPcs)
             /\ (r.pc \in ContentPcs /\ s.res \notin {"none", "ok"})
                  => (s.pc = "done" /\ s.did \cap (AccountPcs \cup {"a_start"}) = {})
             /\ (r.pc = "done") => (s.pc = "done")]_vars

C11_Witness ==
  \E p \in Procs :
    /\ proc[p].op = "delete" /\ proc[p].pc = "a_getuser"
    /\ "c_end" \in proc[p].did

\* the sub-operation of deleteContent a position belongs to: images, posts,
\* topics, uploads, queued, and the release of line 48
Stage(pc) ==
  CASE pc \in {"c_img1", "c_img2"} -> 1
    [] pc \in {"c_posts_fetch", "c_posts_purge"} -> 2
    [] pc \in {"c_topics_fetch", "c_topics_purge"} -> 3
    [] pc \in {"c_uploads_read", "c_uploads_del"} -> 4
    [] pc \in {"c_queue_fetch", "c_queue_objs", "c_queue_rm"} -> 5
    [] pc = "c_end" -> 6
    [] OTHER -> 0

\* C12: inside deleteContent the sub-operations run in the order images,
\* posts, topics, uploads, queued: a step stays in its sub-operation or moves
\* to the next one, the phase starts with the images, and a failure ends the
\* call with no step of a later sub-operation done.
C12_ContentOrder ==
  [][\A p \in Procs :
       LET r == proc[p]
           s == proc'[p]
       IN  /\ (s.pc \in ContentPcs /\ r.pc \notin ContentPcs) => Stage(s.pc) = 1
           /\ (r.pc \in ContentPcs /\ s.pc \in ContentPcs)
                => Stage(s.pc) \in {Stage(r.pc), Stage(r.pc) + 1}
           /\ (r.pc \in ContentPcs /\ s.pc \notin ContentPcs)
                => \/ r.pc = "c_end"
                   \/ /\ s.pc = "done" /\ s.res = "error"
                      /\ \A x \in s.did : Stage(x) <= Stage(r.pc)]_vars

C12_Witness ==
  \E p \in Procs :
    /\ proc[p].pc = "c_end"
    /\ {"c_img1", "c_posts_purge", "c_topics_purge", "c_uploads_del", "c_queue_rm"}
         \subseteq proc[p].did

\* ------------------------------------------------------------- deleteQueued
\* The queue purge on its own: deleteQueued(1) starts on a post:queue of up to
\* MaxQueue entries, each owned by user 1 or user 2, in any order; deleteQueued(2)
\* either runs interleaved with it or was never called.
QueueId(i) == <<"q", CHOOSE c \in Digits : DigitVal(c) = i>>

QueueOwners == UNION {[1..n -> {U1, U2}] : n \in 0..MaxQueue}

\* a call that has reached line 47
AtDeleteQueued(uid) ==
  [IdleProc EXCEPT !.pc = "c_queue_fetch", !.op = "deleteContent", !.uid = uid, !.nth = 1,
                   !.did = ContentPcs \ {"c_queue_fetch", "c_queue_objs", "c_queue_rm", "c_end"}]

InitQueue ==
  \E owners \in QueueOwners, both \in BOOLEAN :
    /\ zsets = NormZ(G("post:queue") :> Z([i \in 1..Len(owners) |-> QueueId(i)]))
    /\ sets = [k \in {} |-> {}]
    /\ objects = [k \in {Key("post:queue:", QueueId(i), "") : i \in 1..Len(owners)} |->
                    LET i == CHOOSE j \in 1..Len(owners) : k[2] = QueueId(j)
                    IN  [id |-> QueueId(i), uid |-> owners[i]]]
    /\ proc = [p \in Procs |->
                 IF p = "p" THEN AtDeleteQueued(U1)
                 ELSE IF both THEN AtDeleteQueued(U2) ELSE IdleProc]
    /\ deletesInProgress = [u \in UidInputs |->
                 IF u = U1 \/ (u = U2 /\ both) THEN "user.delete" ELSE NoEntry]
    /\ fails = 0
    /\ decrOf = [u \in UidInputs |-> 0]
    /\ hist = [u \in UidInputs |->
                 IF u = U1 \/ (u = U2 /\ both)
                   THEN <<[op |-> "deleteContent", st |-> "run"]>> ELSE <<>>]

NextQueue == \E p \in Procs : QueueFetch(p) \/ QueueObjects(p) \/ QueueRemove(p)

SpecQueue == InitQueue /\ [][NextQueue]_vars

\* the ids in the global queue, and those of them submitted by u
QueueIds(z) == Range(Members(z, G("post:queue")))
QueuedBy(z, o, u) ==
  {id \in QueueIds(z) : Field(GetObject(o, Key("post:queue:", id, "")), "uid") = u}

\* no other deleteQueued is running or has run
Alone(p) == \A q \in Procs \ {p} : proc[q].op = "none"

\* C13: deleteQueued(U) removes every queue entry whose uid is U, in whichever
\* batch it falls, and only such entries: every id that leaves post:queue is
\* removed by a call for the uid that submitted it, and when deleteQueued(U),
\* run on its own, returns, no entry of U is left in the queue.
C13_QueuePurged ==
  [][/\ \A id \in QueueIds(zsets) \ QueueIds(zsets') :
          \E p \in Procs :
            /\ proc[p].pc = "c_queue_rm"
            /\ id \in QueuedBy(zsets, objects, proc[p].uid)
     /\ \A p \in Procs :
          (Alone(p) /\ proc[p].pc # "c_end" /\ proc'[p].pc = "c_end")
            => QueuedBy(zsets', objects', proc[p].uid) = {}]_vars

\* deleteQueued(1), on its own, has kept an id from the first batch and goes on
\* to a second batch that holds another entry of user 1
C13_Witness ==
  /\ Alone("p")
  /\ proc["p"].pc = "c_queue_fetch" /\ proc["p"].start = BatchSize
  /\ proc["p"].acc # <<>>
  /\ \E i \in BatchSize + 1 .. MaxQueue :
       QueueId(i) \in QueuedBy(zsets, objects, U1)

\* C17: when the queue purges of two users run interleaved and both have
\* returned, no entry of either user is left in the queue.
C17_InterleavedQueuePurge ==
  (\A p \in Procs : proc[p].op # "none" /\ proc[p].pc = "c_end")
    => \A p \in Procs : QueuedBy(zsets, objects, proc[p].uid) = {}

\* ------------------------------------------------------------- one routine, twice
\* A relation-cleanup routine of the account phase is run for a registered user
\* on the initial store and, when it has returned, is run again for the same uid.
\* the first position of each routine: deleteVotes, deleteChats, deleteUserIps,
\* deleteUserFromFollowers, deleteUserFromFollowedTopics,
\* deleteUserFromIgnoredTopics, deleteUserFromFollowedTags
Routines ==
  {"a_votes_up", "a_chats_read", "a_ips_read", "a_fol_read1", "a_ftids_read",
   "a_itids_read", "a_tags_read"}

\* the position of the caller once the routine has returned
RoutineExit(rt) ==
  CASE rt = "a_votes_up" -> "a_chats_read"
    [] rt = "a_chats_read" -> "a_revoke"
    [] rt = "a_ips_read" -> "a_fol_read1"
    [] rt = "a_fol_read1" -> "a_ftids_read"
    [] rt = "a_ftids_read" -> "a_itids_read"
    [] rt = "a_itids_read" -> "a_tags_read"
    [] rt = "a_tags_read" -> "a_img1"
    [] OTHER -> "none"

InitRepeat ==
  \E rt \in Routines, uid \in {U1, U2} :
    /\ zsets = InitZsets
    /\ sets = InitSets
    /\ objects = InitObjects
    /\ proc = [p \in Procs |->
                 IF p = "p"
                   THEN [IdleProc EXCEPT !.pc = rt, !.op = "deleteAccount", !.uid = uid,
                                         !.nth = 1, !.rt = rt, !.round = 1]
                   ELSE IdleProc]
    /\ deletesInProgress = [u \in UidInputs |->
                              IF u = uid THEN "user.deleteAccount" ELSE NoEntry]
    /\ fails = 0
    /\ decrOf = [u \in UidInputs |-> 0]
    /\ hist = [u \in UidInputs |->
                 IF u = uid THEN <<[op |-> "deleteAccount", st |-> "run"]>> ELSE <<>>]

\* the routine under way has not returned yet
InRoutine(p) == proc[p].rt # "none" /\ proc[p].pc # RoutineExit(proc[p].rt)

\* a step of the routine under way
RoutineStep(p) ==
  \/ (InRoutine(p) /\ VotesReadUp(p))
  \/ (InRoutine(p) /\ VotesReadDown(p))
  \/ (InRoutine(p) /\ Unvote(p))
  \/ (InRoutine(p) /\ ChatsRead(p))
  \/ (InRoutine(p) /\ LeaveRooms(p))
  \/ (InRoutine(p) /\ IpsRead(p))
  \/ (InRoutine(p) /\ IpsRemove(p))
  \/ (InRoutine(p) /\ IpsDelete(p))
  \/ (InRoutine(p) /\ FollowersRead(p))
  \/ (InRoutine(p) /\ FollowingRead(p))
  \/ (InRoutine(p) /\ FollowRemove(p))
  \/ (InRoutine(p) /\ (\E t \in proc[p].ft : FollowCard(p, t)))
  \/ (InRoutine(p) /\ (\E t \in proc[p].ft : FollowSetCount(p, t)))
  \/ (InRoutine(p) /\ FollowJoin(p))
  \/ (InRoutine(p) /\ FollowedTidsRead(p))
  \/ (InRoutine(p) /\ FollowedTidsRemove(p))
  \/ (InRoutine(p) /\ IgnoredTidsRead(p))
  \/ (InRoutine(p) /\ IgnoredTidsRemove(p))
  \/ (InRoutine(p) /\ FollowedTagsRead(p))
  \/ (InRoutine(p) /\ FollowedTagsRemove(p))

\* the routine has returned for the first time and is called again
Rerun(p) ==
  /\ proc[p].round = 1
  /\ At(p, RoutineExit(proc[p].rt))
  /\ proc' = [proc EXCEPT ![p] = [@ EXCEPT !.pc = proc[p].rt, !.round = 2, !.did = {}]]
  /\ UNCHANGED <<deletesInProgress, store, fails, decrOf, hist>>

NextRepeat == \E p \in Procs : RoutineStep(p) \/ Rerun(p)

SpecRepeat == InitRepeat /\ [][NextRepeat]_vars

\* C14: a relation-cleanup routine run a second time for the same uid, after
\* its first run has returned, changes nothing in the store and raises no error.
C14_SecondRunIsNoOp ==
  [][\A p \in Procs :
       proc[p].round = 2 => (store' = store /\ proc'[p].res # "error")]_vars

\* ------------------------------------------------------------- deleteContent alone
\* One User.deleteContent(caller, 1), with no other call and no failing step,
\* for a user 1 who has authored up to MaxPosts posts and MaxTopics topics and
\* has any number of the entries of a post:queue shared with user 2. The event
\* loop runs every continuation that is ready, hence the weak fairness.
PostId(i) == <<"p", CHOOSE c \in Digits : DigitVal(c) = i>>
TopicId(i) == <<"t", CHOOSE c \in Digits : DigitVal(c) = i>>

InitContent ==
  \E np \in 0..MaxPosts, nt \in 0..MaxTopics, owners \in QueueOwners :
    /\ zsets = NormZ((Key("uid:", U1, ":posts") :> Z([i \in 1..np |-> PostId(i)])) @@
                     (Key("uid:", U1, ":topics") :> Z([i \in 1..nt |-> TopicId(i)])) @@
                     (G("post:queue") :> Z([i \in 1..Len(owners) |-> QueueId(i)])))
    /\ sets = [k \in {} |-> {}]
    /\ objects = [k \in {Key("post:queue:", QueueId(i), "") : i \in 1..Len(owners)} |->
                    LET i == CHOOSE j \in 1..Len(owners) : k[2] = QueueId(j)
                    IN  [id |-> QueueId(i), uid |-> owners[i]]]
    /\ proc = [p \in Procs |-> IdleProc]
    /\ deletesInProgress = [u \in UidInputs |-> NoEntry]
    /\ fails = 0
    /\ decrOf = [u \in UidInputs |-> 0]
    /\ hist = [u \in UidInputs |-> <<>>]

NextContent == DeleteContentEntry("p", "deleteContent", U1) \/ ContentStep("p")

SpecContent == InitContent /\ [][NextContent]_vars /\ WF_vars(NextContent)

\* u has no posts, topics, uploads or queued submissions
NoContent(u) ==
  /\ {Key("uid:", u, ":posts"), Key("uid:", u, ":topics"), Key("uid:", u, ":uploads")}
       \cap DOMAIN zsets = {}
  /\ QueuedBy(zsets, objects, u) = {}

\* the call has returned without error and the guard entry of its uid is absent
Completed(p) ==
  /\ proc[p].pc = "done" /\ proc[p].res = "ok"
  /\ deletesInProgress[proc[p].uid] = NoEntry

\* C15: when user 1 has no posts, topics, uploads or queued submissions,
\* User.deleteContent(caller, 1) never calls posts.purge, topics.purge or
\* posts.removeFromQueue, raises no error, leaves the user's content indices
\* absent throughout, and completes with the guard entry absent.
C15_NoContentNoPurge ==
  NoContent(U1) =>
    /\ [](/\ proc["p"].res # "error"
          /\ proc["p"].did \cap {"c_posts_purge", "c_topics_purge", "c_queue_rm"} = {}
          /\ NoContent(U1))
    /\ <>Completed("p")

\* the call has completed having purged nothing, past a queue that holds
\* entries of another user
C15_Witness ==
  /\ Completed("p")
  /\ proc["p"].did \cap {"c_posts_purge", "c_topics_purge", "c_queue_rm"} = {}
  /\ "c_queue_objs" \in proc["p"].did
  /\ NoContent(U1)

\* C19: with no failing step and purges that remove what they are given,
\* deletePosts and deleteTopics, which fetch from offset 0 every time,
\* terminate: User.deleteContent eventually completes with the guard entry
\* absent and with every authored post and topic purged from the user's indices.
C19_ContentScansTerminate ==
  <>(/\ Completed("p")
     /\ {Key("uid:", U1, ":posts"), Key("uid:", U1, ":topics")} \cap DOMAIN zsets = {})

\* deletePosts has purged a full batch and fetches again from offset 0 with
\* posts still in the index
C19_Witness ==
  /\ proc["p"].pc = "c_posts_fetch" /\ proc["p"].start = 0
  /\ "c_posts_purge" \in proc["p"].did
  /\ Key("uid:", U1, ":posts") \in DOMAIN zsets

\* ------------------------------------------------------------- ordering and frame
\* C16: within one User.deleteAccount every routine has read the user's own
\* index before the step that deletes that index runs: the votes and the chat
\* rooms before db.deleteAll(keys), the ip history before db.delete of it, and
\* every routine of lines 162-170, with all members of its Promise.all, has
\* returned before the final db.deleteAll.
C16_ReadBeforeDelete ==
  \A p \in Procs :
    LET r == proc[p]
    IN  /\ r.pc = "a_delkeys"
             => {"a_votes_up", "a_votes_down", "a_chats_read", "a_leave"} \subseteq r.did
        /\ r.pc = "a_ips_del" => {"a_ips_read", "a_ips_rm"} \subseteq r.did
        /\ r.pc = "a_final"
             => /\ {"a_ips_read", "a_ips_rm", "a_ips_del", "a_fol_read1", "a_fol_read2",
                    "a_fol_par", "a_ftids_read", "a_ftids_rm", "a_itids_read", "a_itids_rm",
                    "a_tags_read", "a_tags_rm"} \subseteq r.did
                /\ r.ft = {}

\* a deleteAccount is about to run the final db.deleteAll, having recounted
\* a follower
C16_Witness ==
  \E p \in Procs :
    /\ proc[p].pc = "a_final" /\ proc[p].ft = {}
    /\ Key("following:", U2, "") \notin DOMAIN zsets
    /\ proc[p].uid = U1

\* C18: a call rejected with already-deleting changes neither the guard
\* registry nor the store, and the rejected entry point has made no store or
\* collaborator call.
C18_RejectionChangesNothing ==
  [][\A p \in Procs :
       LET r == proc[p]
           s == proc'[p]
       IN  (r.res # "already-deleting" /\ s.res = "already-deleting")
             => /\ deletesInProgress' = deletesInProgress
                /\ deletesInProgress[s.uid] # NoEntry
                /\ store' = store
                /\ decrOf' = decrOf
                /\ r.pc \in {"idle", "a_start"}
                /\ s.did \cap AccountPcs = {}
                /\ (r.pc = "idle") => (s.did = {"idle"})]_vars

\* a deleteAccount has been rejected while another call for the same uid is
\* inside its account phase
C18_Witness ==
  \E p \in Procs, q \in Procs :
    /\ p # q
    /\ proc[p].op = "deleteAccount" /\ proc[p].res = "already-deleting"
    /\ proc[q].uid = proc[p].uid /\ proc[q].pc \in AccountPcs
    /\ deletesInProgress[proc[p].uid] = "user.deleteAccount"

====
